---- MODULE Spec2Model ----
(***************************************************************************)
(* dbl.Client (src/dbl/client.py): the facade over the discordbots.org     *)
(* HTTP layer.  The client lives on an asyncio event loop: a coroutine     *)
(* runs without interruption from one await to the next, so every action   *)
(* below is the code between two suspension points of one coroutine.       *)
(*                                                                         *)
(* Python values: ids and counts are integers, None is the integer None    *)
(* (no id or count has that value), colours, URLs, error kinds and decoded *)
(* payloads are strings.  A call's keyword arguments are a record whose    *)
(* domain is the set of arguments the caller supplied.  A coroutine's      *)
(* result is <<"return", v>>, <<"return">> when it returns nothing (None), *)
(* or <<"raise", e>>.                                                      *)
(***************************************************************************)
EXTENDS Integers, Sequences, FiniteSets, TLC

VARIABLES
    host,            \* the bot object handed to Client(token, bot)
    ready,           \* the host has signalled readiness (bot.wait_until_ready returns)
    ainit_pc,        \* position of the task created by __init__ for __ainit__
    bot_id,          \* self.bot_id
    _is_closed,       \* self._is_closed
    task,            \* the caller tasks: position and locals of the facade coroutine each runs
    close_calls,     \* history: close() invocations so far
    http_close_calls,\* history: self.http.close() invocations so far
    http_close_ok,   \* history: self.http.close() invocations that completed without raising
    overlapped       \* history: some close() started while another close() was suspended

vars == <<host, ready, ainit_pc, bot_id, _is_closed, task,
          close_calls, http_close_calls, http_close_ok, overlapped>>

(***************************************************************************)
(* Bounds                                                                  *)
(***************************************************************************)
NTasks == 2       \* caller tasks running facade coroutines concurrently
MaxCloses == 3    \* close() invocations in one behaviour
MaxGuilds == 1    \* largest guilds / servers collection of a host

None == -1

Tasks == 1..NTasks

(***************************************************************************)
(* Host objects.  A host exposes a guilds collection, a legacy servers     *)
(* collection, or both; the two collections are independent objects.  Only *)
(* the length of a collection is ever read.                                *)
(***************************************************************************)
Collections == {[i \in 1..n |-> 0] : n \in 0..MaxGuilds}

Hosts ==
    { [has_guilds |-> TRUE, has_servers |-> TRUE, guilds |-> g, servers |-> s, user_id |-> 456]
        : g \in Collections, s \in Collections }
    \cup { [has_guilds |-> TRUE, has_servers |-> FALSE, guilds |-> g, servers |-> <<>>, user_id |-> 456]
        : g \in Collections }
    \cup { [has_guilds |-> FALSE, has_servers |-> TRUE, guilds |-> <<>>, servers |-> s, user_id |-> 456]
        : s \in Collections }

(***************************************************************************)
(* What the HTTP layer hands back to an awaiting facade coroutine: a       *)
(* decoded payload, or one of its errors.                                  *)
(***************************************************************************)
Payloads == {"json1", "json2"}
Errors == {"Unauthorized", "HTTPError"}
Responses == {<<"ok", p>> : p \in Payloads} \cup {<<"error", e>> : e \in Errors}

NetworkOps == {"post_server_count", "get_server_count", "get_upvote_info",
               "get_bot_info", "get_bots", "get_user_info"}
WidgetOps == {"generate_widget_large", "get_widget_large",
              "generate_widget_small", "get_widget_small"}

(***************************************************************************)
(* Call-site arguments.                                                    *)
(***************************************************************************)
Restrict(r, D) == [k \in D |-> r[k]]

BotIdArgs == {<<>>, [bot_id |-> None], [bot_id |-> 123]}

ShardArgs == {<<>>, [shard_count |-> 2, shard_no |-> 0]}

UpvoteArgs == BotIdArgs \cup {[onlyids |-> TRUE, days |-> 7],
                              [bot_id |-> 123, days |-> 7]}

BotsArgs == {<<>>, [limit |-> 10, offset |-> 5]}

UserArgs == {[user_id |-> 99]}

LargeCustom == [bot_id |-> 123, top |-> "A1A1A1", mid |-> "B2B2B2", user |-> "C3C3C3",
                cert |-> "D4D4D4", data |-> "E5E5E5", label |-> "F6F6F6",
                highlight |-> "070707"]

LargeArgs == BotIdArgs \cup
    { Restrict(LargeCustom, D) : D \in {DOMAIN LargeCustom, DOMAIN LargeCustom \ {"bot_id"}} }

SmallCustom == [bot_id |-> 123, avabg |-> "A1A1A1", lcol |-> "B2B2B2", rcol |-> "C3C3C3",
                ltxt |-> "D4D4D4", rtxt |-> "E5E5E5"]

SmallArgs == BotIdArgs \cup
    { Restrict(SmallCustom, D) : D \in {DOMAIN SmallCustom, DOMAIN SmallCustom \ {"bot_id"},
                                        {"lcol"}, {"bot_id", "rtxt"}} }

(***************************************************************************)
(* Python helpers.                                                         *)
(***************************************************************************)
\* dict.get(key, default), and the binding of a parameter with a default value
Get(kwargs, key, default) == IF key \in DOMAIN kwargs THEN kwargs[key] ELSE default

\* str() of an id or None, as '{0}'.format applies it
PyStr(v) == IF v = None THEN "None" ELSE ToString(v)

\* str.format for a template  lits[1] {fields[1]} lits[2] {fields[2]} ... lits[n+1]
\* whose replacement fields are positional indexes (0-based) into args
RECURSIVE FormatFrom(_, _, _, _)
FormatFrom(lits, fields, args, i) ==
    IF i > Len(fields) THEN ""
    ELSE args[fields[i] + 1] \o lits[i + 1] \o FormatFrom(lits, fields, args, i + 1)

Format(lits, fields, args) == lits[1] \o FormatFrom(lits, fields, args, 1)

(***************************************************************************)
(* Task records.                                                           *)
(***************************************************************************)
\* pc, op, args: the coroutine the task runs and how far it is; local_bot_id: its local
\* bot_id after defaulting; req: the HTTP-layer call it made; resp: what that call gave;
\* result: what the coroutine gave its caller; calls: HTTP-layer calls it made;
\* parity: history, tells a call that ran to its end without awaiting from the call
\* before it (it flips at every such call)
IdleTask == [pc |-> "idle", op |-> "", args |-> <<>>, local_bot_id |-> None,
             req |-> <<>>, resp |-> <<>>, result |-> <<>>, calls |-> 0, parity |-> 0]

\* the coroutine's frame right after it has called into the HTTP layer and suspended
Awaiting(t, op, args, local, req) ==
    [pc |-> "awaiting", op |-> op, args |-> args, local_bot_id |-> local,
     req |-> req, resp |-> <<>>, result |-> <<>>, calls |-> 1,
     parity |-> 0]

\* a coroutine that ran to its end without calling the HTTP layer
Finished(t, op, args, local, result) ==
    [pc |-> "done", op |-> op, args |-> args, local_bot_id |-> local,
     req |-> <<>>, resp |-> <<>>, result |-> result, calls |-> 0,
     parity |-> 1 - task[t].parity]

\* a task may start a coroutine when it is not suspended inside one
CanCall(t) == task[t].pc # "awaiting"

\* task 1 is the application's flow and uses the whole facade; the other tasks are
\* shutdown paths, which only call close()
UsesFacade(t) == t = 1

Init ==
    /\ host \in Hosts
    /\ ready \in BOOLEAN
    /\ ainit_pc = "waiting"
    /\ bot_id = None
    /\ _is_closed = FALSE
    /\ task = [t \in Tasks |-> IdleTask]
    /\ close_calls = 0
    /\ http_close_calls = 0
    /\ http_close_ok = 0
    /\ overlapped = FALSE

(***************************************************************************)
(* The host and the readiness task.                                        *)
(***************************************************************************)
HostReady ==
    /\ ~ready
    /\ ready' = TRUE
    /\ UNCHANGED <<host, ainit_pc, bot_id, _is_closed, task,
                   close_calls, http_close_calls, http_close_ok, overlapped>>

\* fault: the readiness task stores the id without waiting for the host
ainit_without_wait ==
    /\ ainit_pc = "waiting"
    /\ bot_id' = host.user_id
    /\ ainit_pc' = "done"
    /\ UNCHANGED <<host, ready, _is_closed, task,
                   close_calls, http_close_calls, http_close_ok, overlapped>>

ainit ==
    /\ ainit_pc = "waiting"
    /\ ready
    /\ bot_id' = host.user_id
    /\ ainit_pc' = "done"
    /\ UNCHANGED <<host, ready, _is_closed, task,
                   close_calls, http_close_calls, http_close_ok, overlapped>>

(***************************************************************************)
(* Network-facing operations: the code up to the await of the HTTP layer.  *)
(***************************************************************************)
Frame == UNCHANGED <<host, ready, ainit_pc, bot_id, _is_closed,
                     close_calls, http_close_calls, http_close_ok, overlapped>>

\* fault: the legacy attribute is read first
guild_count_servers_first ==
    IF host.has_servers THEN <<"return", Len(host.servers)>>
    ELSE IF host.has_guilds THEN <<"return", Len(host.guilds)>>
    ELSE <<"raise", "AttributeError">>

\* Client.guild_count: len(bot.guilds), or len(bot.servers) when reading bot.guilds
\* raises AttributeError; an AttributeError of bot.servers is not caught
guild_count ==
    IF host.has_guilds THEN <<"return", Len(host.guilds)>>
    ELSE IF host.has_servers THEN <<"return", Len(host.servers)>>
    ELSE <<"raise", "AttributeError">>

\* fault: an unset self.bot_id is looked up on the host instead of being used as it is
default_bot_id_from_host(args) ==
    LET given == Get(args, "bot_id", None)
    IN  IF given # None THEN given
        ELSE IF bot_id = None THEN host.user_id ELSE bot_id

\* "if bot_id is None: bot_id = self.bot_id" on a parameter bot_id=None
default_bot_id(args) ==
    LET given == Get(args, "bot_id", None)
    IN  IF given = None THEN bot_id ELSE given

post_server_count(t) ==
    /\ CanCall(t) /\ UsesFacade(t)
    /\ \E args \in ShardArgs :
         LET shard_count == Get(args, "shard_count", None)
             shard_no == Get(args, "shard_no", None)
             count == guild_count
         IN  task' = [task EXCEPT ![t] =
                 IF count[1] = "raise"
                 THEN Finished(t, "post_server_count", args, None, count)
                 ELSE Awaiting(t, "post_server_count", args, None,
                               <<"post_server_count", bot_id, count[2], shard_count, shard_no>>)]
    /\ Frame

get_server_count(t) ==
    /\ CanCall(t) /\ UsesFacade(t)
    /\ \E args \in BotIdArgs :
         LET id == default_bot_id(args)
         IN  task' = [task EXCEPT ![t] =
                 Awaiting(t, "get_server_count", args, id, <<"get_server_count", id>>)]
    /\ Frame

get_upvote_info(t) ==
    /\ CanCall(t) /\ UsesFacade(t)
    /\ \E kwargs \in UpvoteArgs :
         LET id == Get(kwargs, "bot_id", bot_id)
             onlyids == Get(kwargs, "onlyids", FALSE)
             days == Get(kwargs, "days", 31)
         IN  task' = [task EXCEPT ![t] =
                 Awaiting(t, "get_upvote_info", kwargs, id, <<"get_upvote_info", id, onlyids, days>>)]
    /\ Frame

get_bot_info(t) ==
    /\ CanCall(t) /\ UsesFacade(t)
    /\ \E args \in BotIdArgs :
         LET id == default_bot_id(args)
         IN  task' = [task EXCEPT ![t] =
                 Awaiting(t, "get_bot_info", args, id, <<"get_bot_info", id>>)]
    /\ Frame

get_bots(t) ==
    /\ CanCall(t) /\ UsesFacade(t)
    /\ \E args \in BotsArgs :
         LET limit == Get(args, "limit", 50)
             offset == Get(args, "offset", 0)
         IN  task' = [task EXCEPT ![t] =
                 Awaiting(t, "get_bots", args, None, <<"get_bots", limit, offset>>)]
    /\ Frame

get_user_info(t) ==
    /\ CanCall(t) /\ UsesFacade(t)
    /\ \E args \in UserArgs :
         task' = [task EXCEPT ![t] =
             Awaiting(t, "get_user_info", args, None, <<"get_user_info", args.user_id>>)]
    /\ Frame

(***************************************************************************)
(* The awaited HTTP-layer call completes and the coroutine runs to its     *)
(* end.  post_server_count awaits without returning; the others            *)
(* "return await".  An exception of the HTTP layer passes through: no      *)
(* facade operation has a try block around its await.                      *)
(***************************************************************************)
Outcome(op, resp) ==
    IF resp[1] = "error" THEN <<"raise", resp[2]>>
    ELSE IF op = "post_server_count" THEN <<"return">>
    ELSE <<"return", resp[2]>>

\* fault: a failed call is issued a second time before the error is given up on
http_returns_with_retry(t) ==
    /\ task[t].pc = "awaiting"
    /\ task[t].op \in NetworkOps
    /\ \E resp \in Responses :
         task' = [task EXCEPT ![t] =
             IF resp[1] = "error" /\ task[t].calls = 1
             THEN [@ EXCEPT !.calls = 2]
             ELSE [@ EXCEPT !.pc = "done", !.resp = resp,
                            !.result = Outcome(task[t].op, resp)]]
    /\ Frame

http_returns(t) ==
    /\ task[t].pc = "awaiting"
    /\ task[t].op \in NetworkOps
    /\ \E resp \in Responses :
         task' = [task EXCEPT ![t] =
             [@ EXCEPT !.pc = "done", !.resp = resp, !.result = Outcome(task[t].op, resp)]]
    /\ Frame

(***************************************************************************)
(* Widget URL builders: coroutines with no await, so each runs from call   *)
(* to return in one step.                                                  *)
(***************************************************************************)
widget_large_url(id, top, mid, user, cert, data, label, highlight) ==
    Format(<<"https://discordbots.org/api/widget/", ".png?topcolor=", "&middlecolor=",
             "&usernamecolor=", "&certifiedcolor=", "&datacolor=", "&labelcolor=",
             "&highlightcolor=", "">>,
           <<0, 1, 2, 3, 4, 5, 6, 7>>,
           <<PyStr(id), top, mid, user, cert, data, label, highlight>>)

\* fault: the colours are formatted in the order of the signature
widget_small_url_signature_order(id, avabg, lcol, rcol, ltxt, rtxt) ==
    Format(<<"https://discordbots.org/api/widget/lib/", ".png?avatarbg=", "&lefttextcolor=",
             "&righttextcolor=", "&leftcolor=", "&rightcolor=", "">>,
           <<0, 1, 2, 3, 4, 5>>,
           <<PyStr(id), avabg, lcol, rcol, ltxt, rtxt>>)

widget_small_url(id, avabg, lcol, rcol, ltxt, rtxt) ==
    Format(<<"https://discordbots.org/api/widget/lib/", ".png?avatarbg=", "&lefttextcolor=",
             "&righttextcolor=", "&leftcolor=", "&rightcolor=", "">>,
           <<0, 1, 2, 3, 4, 5>>,
           <<PyStr(id), avabg, ltxt, rtxt, lcol, rcol>>)

generate_widget_large(t) ==
    /\ CanCall(t) /\ UsesFacade(t)
    /\ \E args \in LargeArgs :
         LET id == default_bot_id(args)
             url == widget_large_url(id,
                        Get(args, "top", "2C2F33"), Get(args, "mid", "23272A"),
                        Get(args, "user", "FFFFFF"), Get(args, "cert", "FFFFFF"),
                        Get(args, "data", "FFFFFF"), Get(args, "label", "99AAB5"),
                        Get(args, "highlight", "2C2F33"))
         IN  task' = [task EXCEPT ![t] =
                 Finished(t, "generate_widget_large", args, id, <<"return", url>>)]
    /\ Frame

\* fault: the widget is fetched from the service instead of only being named
get_widget_large_fetching(t) ==
    /\ CanCall(t) /\ UsesFacade(t)
    /\ \E args \in BotIdArgs :
         LET id == default_bot_id(args)
         IN  task' = [task EXCEPT ![t] =
                 Awaiting(t, "get_widget_large", args, id, <<"get_widget_large", id>>)]
    /\ Frame

get_widget_large(t) ==
    /\ CanCall(t) /\ UsesFacade(t)
    /\ \E args \in BotIdArgs :
         LET id == default_bot_id(args)
             url == Format(<<"https://discordbots.org/api/widget/", ".png">>, <<0>>,
                           <<PyStr(id)>>)
         IN  task' = [task EXCEPT ![t] =
                 Finished(t, "get_widget_large", args, id, <<"return", url>>)]
    /\ Frame

generate_widget_small(t) ==
    /\ CanCall(t) /\ UsesFacade(t)
    /\ \E args \in SmallArgs :
         LET id == default_bot_id(args)
             url == widget_small_url(id,
                        Get(args, "avabg", "2C2F33"), Get(args, "lcol", "23272A"),
                        Get(args, "rcol", "2C2F33"), Get(args, "ltxt", "FFFFFF"),
                        Get(args, "rtxt", "FFFFFF"))
         IN  task' = [task EXCEPT ![t] =
                 Finished(t, "generate_widget_small", args, id, <<"return", url>>)]
    /\ Frame

get_widget_small(t) ==
    /\ CanCall(t) /\ UsesFacade(t)
    /\ \E args \in BotIdArgs :
         LET id == default_bot_id(args)
             url == Format(<<"https://discordbots.org/api/widget/lib/", ".png">>, <<0>>,
                           <<PyStr(id)>>)
         IN  task' = [task EXCEPT ![t] =
                 Finished(t, "get_widget_small", args, id, <<"return", url>>)]
    /\ Frame

(***************************************************************************)
(* close(): the test of the flag and the call of self.http.close() are one *)
(* step; the coroutine is then suspended, and sets the flag when the       *)
(* awaited close returns.  When the awaited close raises, the assignment   *)
(* is not reached.                                                         *)
(***************************************************************************)
CloseErrors == {"ClientError"}

ClosingElsewhere(t) ==
    \E u \in Tasks \ {t} : task[u].pc = "awaiting" /\ task[u].op = "close"

\* fault: the closed flag is not tested
close_begin_unguarded(t) ==
    /\ CanCall(t)
    /\ close_calls < MaxCloses
    /\ close_calls' = close_calls + 1
    /\ overlapped' = (overlapped \/ ClosingElsewhere(t))
    /\ task' = [task EXCEPT ![t] = Awaiting(t, "close", <<>>, None, <<"close">>)]
    /\ http_close_calls' = http_close_calls + 1
    /\ UNCHANGED <<host, ready, ainit_pc, bot_id, _is_closed, http_close_ok>>

close_begin(t) ==
    /\ CanCall(t)
    /\ close_calls < MaxCloses
    /\ close_calls' = close_calls + 1
    /\ overlapped' = (overlapped \/ ClosingElsewhere(t))
    /\ IF _is_closed
       THEN /\ task' = [task EXCEPT ![t] = Finished(t, "close", <<>>, None, <<"return">>)]
            /\ UNCHANGED http_close_calls
       ELSE /\ task' = [task EXCEPT ![t] = Awaiting(t, "close", <<>>, None, <<"close">>)]
            /\ http_close_calls' = http_close_calls + 1
    /\ UNCHANGED <<host, ready, ainit_pc, bot_id, _is_closed, http_close_ok>>

\* fault: the flag is set in a finally block, whether or not the awaited close raised
close_resume_sets_flag_on_error(t) ==
    /\ task[t].pc = "awaiting"
    /\ task[t].op = "close"
    /\ \E resp \in {<<"ok">>} \cup {<<"error", e>> : e \in CloseErrors} :
         /\ _is_closed' = TRUE
         /\ IF resp[1] = "ok"
            THEN /\ http_close_ok' = http_close_ok + 1
                 /\ task' = [task EXCEPT ![t] =
                        [@ EXCEPT !.pc = "done", !.resp = resp, !.result = <<"return">>]]
            ELSE /\ task' = [task EXCEPT ![t] =
                        [@ EXCEPT !.pc = "done", !.resp = resp, !.result = <<"raise", resp[2]>>]]
                 /\ UNCHANGED http_close_ok
    /\ UNCHANGED <<host, ready, ainit_pc, bot_id, close_calls, http_close_calls, overlapped>>

close_resume(t) ==
    /\ task[t].pc = "awaiting"
    /\ task[t].op = "close"
    /\ \E resp \in {<<"ok">>} \cup {<<"error", e>> : e \in CloseErrors} :
         IF resp[1] = "ok"
         THEN /\ _is_closed' = TRUE
              /\ http_close_ok' = http_close_ok + 1
              /\ task' = [task EXCEPT ![t] =
                     [@ EXCEPT !.pc = "done", !.resp = resp, !.result = <<"return">>]]
         ELSE /\ task' = [task EXCEPT ![t] =
                     [@ EXCEPT !.pc = "done", !.resp = resp, !.result = <<"raise", resp[2]>>]]
              /\ UNCHANGED <<_is_closed, http_close_ok>>
    /\ UNCHANGED <<host, ready, ainit_pc, bot_id, close_calls, http_close_calls, overlapped>>

Next ==
    \/ HostReady
    \/ ainit
    \/ \E t \in Tasks : post_server_count(t)
    \/ \E t \in Tasks : get_server_count(t)
    \/ \E t \in Tasks : get_upvote_info(t)
    \/ \E t \in Tasks : get_bot_info(t)
    \/ \E t \in Tasks : get_bots(t)
    \/ \E t \in Tasks : get_user_info(t)
    \/ \E t \in Tasks : http_returns(t)
    \/ \E t \in Tasks : generate_widget_large(t)
    \/ \E t \in Tasks : get_widget_large(t)
    \/ \E t \in Tasks : generate_widget_small(t)
    \/ \E t \in Tasks : get_widget_small(t)
    \/ \E t \in Tasks : close_begin(t)
    \/ \E t \in Tasks : close_resume(t)

Spec == Init /\ [][Next]_vars

TypeOK ==
    /\ host \in Hosts
    /\ ready \in BOOLEAN
    /\ ainit_pc \in {"waiting", "done"}
    /\ bot_id \in {None, host.user_id}
    /\ _is_closed \in BOOLEAN
    /\ \A t \in Tasks : task[t].pc \in {"idle", "awaiting", "done"}
    /\ close_calls \in 0..MaxCloses
    /\ http_close_calls \in 0..close_calls
    /\ http_close_ok \in 0..http_close_calls

(***************************************************************************)
(* Vocabulary of the properties.                                           *)
(***************************************************************************)
\* task t starts a coroutine in this step
CallStep(t) ==
    /\ task[t].pc # "awaiting"
    /\ (task'[t].pc = "awaiting" \/ task'[t].parity # task[t].parity)

\* task t's awaited HTTP-layer call completes in this step
ResumeStep(t) == task[t].pc = "awaiting" /\ task'[t].pc = "done"

Returned(t) == task[t].pc = "done" /\ task[t].result[1] = "return"
Raised(t) == task[t].pc = "done" /\ task[t].result[1] = "raise"

\* close() coroutines suspended in "await self.http.close()"
ClosesInFlight == Cardinality({t \in Tasks : task[t].pc = "awaiting" /\ task[t].op = "close"})

\* self.http.close() invocations that have raised so far
CloseFailures == http_close_calls - http_close_ok - ClosesInFlight

\* a close() that returned without calling the HTTP layer
NoOpClose(t) == task[t].op = "close" /\ task[t].pc = "done" /\ task[t].calls = 0

(***************************************************************************)
(* C1 as stated: in a run whose close() calls never overlap, no close()    *)
(* raises, self.http.close() is invoked exactly once (by the first call),  *)
(* and every later call is a no-op that leaves the closed flag true.       *)
(***************************************************************************)
C1_SequentialCloseNeverRaises ==
    ~overlapped =>
        /\ \A t \in Tasks : task[t].op = "close" => ~Raised(t)
        /\ close_calls >= 1 => http_close_calls = 1
        /\ \A t \in Tasks : NoOpClose(t) => _is_closed

(***************************************************************************)
(* C1 amended: in a run whose close() calls never overlap, a close()       *)
(* raises only when its own self.http.close() raised; self.http.close() is *)
(* never invoked again once one invocation has completed without raising   *)
(* (so it is invoked exactly once, by the first call, when it does not     *)
(* raise); a call returns without invoking it only when the closed flag is *)
(* true, and the flag then stays true.                                     *)
(***************************************************************************)
C1_SequentialCloseIdempotent ==
    ~overlapped =>
        /\ \A t \in Tasks : (task[t].op = "close" /\ Raised(t)) =>
               (task[t].calls = 1 /\ task[t].resp[1] = "error"
                   /\ task[t].result = <<"raise", task[t].resp[2]>>)
        /\ http_close_ok + ClosesInFlight <= 1
        /\ (http_close_ok = 1) <=> _is_closed
        /\ (close_calls >= 1 /\ CloseFailures = 0) => http_close_calls = 1
        /\ \A t \in Tasks : NoOpClose(t) => (_is_closed /\ task[t].result = <<"return">>)

\* three close() calls one after the other: the first releases the session, a later
\* one is a no-op
C1_Witness ==
    /\ ~overlapped
    /\ close_calls = 3
    /\ http_close_calls = 1
    /\ http_close_ok = 1
    /\ _is_closed
    /\ \E t \in Tasks : NoOpClose(t) /\ task[t].result = <<"return">>

(***************************************************************************)
(* C2: however close() calls interleave, the session release             *)
(* (self.http.close()) is attempted at most once; stated for the runs in   *)
(* which no release attempt has raised, so that a retry after a failure    *)
(* is not counted against it.                                              *)
(***************************************************************************)
C2_AtMostOneReleaseAttempt ==
    CloseFailures = 0 => http_close_calls <= 1

(***************************************************************************)
(* C10: the closed flag is true only after a self.http.close() has         *)
(* completed without raising; a close() whose self.http.close() raises     *)
(* raises that error and leaves the flag as it was; and a close() called   *)
(* while the flag is false invokes self.http.close() (again).              *)
(***************************************************************************)
C10_ClosedOnlyAfterRelease ==
    /\ [](_is_closed => http_close_ok >= 1)
    /\ [](\A t \in Tasks : (task[t].op = "close" /\ task[t].pc = "done"
                               /\ task[t].calls = 1 /\ task[t].resp[1] = "error")
              => task[t].result = <<"raise", task[t].resp[2]>>)
    /\ [][\A t \in Tasks :
             /\ (ResumeStep(t) /\ task[t].op = "close" /\ task'[t].resp[1] = "error")
                    => (_is_closed' = _is_closed /\ http_close_ok' = http_close_ok)
             /\ (ResumeStep(t) /\ task[t].op = "close" /\ task'[t].resp[1] = "ok")
                    => (_is_closed' /\ http_close_ok' = http_close_ok + 1)
             /\ (CallStep(t) /\ task'[t].op = "close" /\ ~_is_closed)
                    => (task'[t].pc = "awaiting" /\ http_close_calls' = http_close_calls + 1
                           /\ ~_is_closed')
             /\ (_is_closed' # _is_closed)
                    => (\E u \in Tasks : ResumeStep(u) /\ task[u].op = "close")
       ]_vars

\* a close() failed with the flag left false, and the next close() tried the release again
C10_Witness ==
    /\ ~_is_closed
    /\ http_close_ok = 0
    /\ http_close_calls = 2
    /\ \E t \in Tasks : task[t].op = "close" /\ Raised(t)
    /\ \E t \in Tasks : task[t].op = "close" /\ task[t].pc = "awaiting"

(***************************************************************************)
(* C3: self.bot_id is None in every state until the host has signalled     *)
(* readiness and the readiness task has run; the only step that writes it  *)
(* is the readiness task's, which writes the host's own id, once; no       *)
(* facade operation writes it, and it never changes afterwards.            *)
(***************************************************************************)
C3_BotIdWrittenOnceByReadinessTask ==
    /\ []((~ready \/ ainit_pc = "waiting") => bot_id = None)
    /\ [](ainit_pc = "done" => bot_id = host.user_id)
    /\ [][/\ (bot_id' # bot_id) =>
                 (/\ ready /\ bot_id = None /\ bot_id' = host.user_id
                  /\ ainit_pc = "waiting" /\ ainit_pc' = "done"
                  /\ task' = task)
          /\ (ainit_pc = "done") => (bot_id' = bot_id /\ ainit_pc' = "done")
          /\ (\E t \in Tasks : CallStep(t) \/ ResumeStep(t)) => bot_id' = bot_id
       ]_vars

\* after readiness the id is the host's, and facade operations, close() included,
\* have run since without changing it
C3_Witness ==
    /\ ainit_pc = "done"
    /\ bot_id = host.user_id
    /\ _is_closed
    /\ task[1].op = "post_server_count" /\ task[1].pc = "done"
    /\ task[1].req[2] = host.user_id

(***************************************************************************)
(* C4: every operation with an optional bot_id works on self.bot_id when   *)
(* the caller omits bot_id or passes None, and on the caller's value       *)
(* otherwise.                                                              *)
(***************************************************************************)
BotIdOps == {"get_server_count", "get_upvote_info", "get_bot_info",
             "generate_widget_large", "generate_widget_small",
             "get_widget_large", "get_widget_small"}

C4_DefaultsToResolvedId ==
    [][\A t \in Tasks :
          (CallStep(t) /\ task'[t].op \in BotIdOps) =>
              LET given == Get(task'[t].args, "bot_id", None)
              IN  task'[t].local_bot_id = (IF given = None THEN bot_id ELSE given)
      ]_vars

(***************************************************************************)
(* C5: before the readiness task has completed, an operation that          *)
(* defaults the id neither waits nor raises: it can be called in every     *)
(* state in which the task is free, post_server_count and the get_* calls  *)
(* hand None to the HTTP layer as the bot id, the widget builders return   *)
(* the URL of the id "None"; a call with an explicit bot_id works on that  *)
(* id.                                                                     *)
(***************************************************************************)
\* the first n characters of string s
Prefix(s, n) == SubSeq(s, 1, n)

StartsWith(s, p) == Len(s) >= Len(p) /\ Prefix(s, Len(p)) = p

C5_UnsetIdBeforeReadiness ==
    (ainit_pc = "waiting") =>
        /\ bot_id = None
        /\ \A t \in Tasks : (CanCall(t) /\ UsesFacade(t)) =>
              /\ ENABLED post_server_count(t)
              /\ ENABLED get_server_count(t)
              /\ ENABLED get_upvote_info(t)
              /\ ENABLED get_bot_info(t)
              /\ ENABLED generate_widget_large(t)
              /\ ENABLED get_widget_large(t)
              /\ ENABLED generate_widget_small(t)
              /\ ENABLED get_widget_small(t)
        /\ \A t \in Tasks :
              LET given == Get(task[t].args, "bot_id", None)
                  id == IF given = None THEN "None" ELSE ToString(given)
                  url == task[t].result[2]
              IN  /\ (task[t].op \in NetworkOps /\ Raised(t)) =>
                        (task[t].calls = 1 /\ task[t].resp[1] = "error")
                  /\ (task[t].op \in NetworkOps) => task[t].calls = 1
                  /\ (task[t].op = "post_server_count") => task[t].req[2] = None
                  /\ (task[t].op \in {"get_server_count", "get_upvote_info", "get_bot_info"})
                        => task[t].req[2] = given
                  /\ (task[t].op \in WidgetOps) => Returned(t)
                  /\ (task[t].op = "get_widget_large") =>
                        url = "https://discordbots.org/api/widget/" \o id \o ".png"
                  /\ (task[t].op = "get_widget_small") =>
                        url = "https://discordbots.org/api/widget/lib/" \o id \o ".png"
                  /\ (task[t].op = "generate_widget_large") =>
                        StartsWith(url, "https://discordbots.org/api/widget/" \o id \o ".png?")
                  /\ (task[t].op = "generate_widget_small") =>
                        StartsWith(url, "https://discordbots.org/api/widget/lib/" \o id \o ".png?")

\* before readiness: a widget built for the unset id
C5_Witness ==
    /\ ainit_pc = "waiting"
    /\ ~ready
    /\ task[1].op = "generate_widget_small"
    /\ task[1].args = <<>>
    /\ task[1].result = <<"return", "https://discordbots.org/api/widget/lib/None.png?avatarbg=2C2F33&lefttextcolor=FFFFFF&righttextcolor=FFFFFF&leftcolor=23272A&rightcolor=2C2F33">>

(***************************************************************************)
(* C6: a widget builder has no effect.  The step that runs one changes     *)
(* nothing but the calling task's own frame: no HTTP-layer call is made    *)
(* (the task ends with no request and none in flight), self.bot_id, the    *)
(* closed flag and every other task are as before; and it returns the URL  *)
(* the previous call returned when the operation, the arguments and the    *)
(* resolved id are those of the previous call.  This holds in every state, *)
(* before readiness and after close() included.                            *)
(***************************************************************************)
C6_WidgetBuildersHaveNoEffect ==
    [][\A t \in Tasks :
          (CallStep(t) /\ task'[t].op \in WidgetOps) =>
              /\ task'[t].pc = "done"
              /\ task'[t].calls = 0
              /\ task'[t].req = <<>>
              /\ task'[t].result[1] = "return"
              /\ \A u \in Tasks \ {t} : task'[u] = task[u]
              /\ UNCHANGED <<host, ready, ainit_pc, bot_id, _is_closed,
                             close_calls, http_close_calls, http_close_ok>>
              /\ (/\ task[t].pc = "done"
                  /\ task[t].op = task'[t].op
                  /\ task[t].args = task'[t].args
                  /\ task[t].local_bot_id = task'[t].local_bot_id)
                     => task'[t].result = task[t].result
      ]_vars

\* a widget built again (two await-free calls in a row), after close(), for the id the
\* readiness task resolved
C6_Witness ==
    /\ _is_closed
    /\ ainit_pc = "done"
    /\ task[1].op = "generate_widget_large"
    /\ task[1].args = <<>>
    /\ task[1].parity = 0
    /\ task[1].calls = 0
    /\ task[1].local_bot_id = host.user_id
    /\ Returned(1)

(***************************************************************************)
(* C7: generate_widget_small returns                                       *)
(*   https://discordbots.org/api/widget/lib/<bot_id>.png?avatarbg=<avabg>  *)
(*   &lefttextcolor=<ltxt>&righttextcolor=<rtxt>&leftcolor=<lcol>          *)
(*   &rightcolor=<rcol>                                                    *)
(* with each argument under its own key, a missing argument at its         *)
(* default; generate_widget_small(bot_id=123) returns exactly the URL of   *)
(* the specification's example.                                            *)
(***************************************************************************)
C7_SmallWidgetUrl ==
    \A t \in Tasks :
        (task[t].op = "generate_widget_small" /\ task[t].pc = "done") =>
            LET a == task[t].args
                id == task[t].local_bot_id
            IN  /\ task[t].result =
                          <<"return",
                            "https://discordbots.org/api/widget/lib/"
                               \o (IF id = None THEN "None" ELSE ToString(id))
                               \o ".png?avatarbg=" \o Get(a, "avabg", "2C2F33")
                               \o "&lefttextcolor=" \o Get(a, "ltxt", "FFFFFF")
                               \o "&righttextcolor=" \o Get(a, "rtxt", "FFFFFF")
                               \o "&leftcolor=" \o Get(a, "lcol", "23272A")
                               \o "&rightcolor=" \o Get(a, "rcol", "2C2F33")>>
                /\ (a = [bot_id |-> 123]) =>
                      task[t].result = <<"return", "https://discordbots.org/api/widget/lib/123.png?avatarbg=2C2F33&lefttextcolor=FFFFFF&righttextcolor=FFFFFF&leftcolor=23272A&rightcolor=2C2F33">>
                /\ (a = SmallCustom) =>
                      task[t].result = <<"return", "https://discordbots.org/api/widget/lib/123.png?avatarbg=A1A1A1&lefttextcolor=D4D4D4&righttextcolor=E5E5E5&leftcolor=B2B2B2&rightcolor=C3C3C3">>

\* the specification's example: generate_widget_small(bot_id=123)
C7_Witness ==
    /\ task[1].op = "generate_widget_small"
    /\ task[1].args = [bot_id |-> 123]
    /\ task[1].result = <<"return", "https://discordbots.org/api/widget/lib/123.png?avatarbg=2C2F33&lefttextcolor=FFFFFF&righttextcolor=FFFFFF&leftcolor=23272A&rightcolor=2C2F33">>

(***************************************************************************)
(* C8: the guild count post_server_count sends is the length of the host's *)
(* guilds collection whenever the host has one (also when it has servers   *)
(* too), and the length of servers when the host has only servers; no      *)
(* AttributeError reaches the caller then.                                 *)
(***************************************************************************)
C8_GuildCountSource ==
    \A t \in Tasks :
        (task[t].op = "post_server_count") =>
            /\ task[t].result # <<"raise", "AttributeError">>
            /\ task[t].calls = 1
            /\ Len(task[t].req) = 5
            /\ host.has_guilds => task[t].req[3] = Len(host.guilds)
            /\ (~host.has_guilds /\ host.has_servers) => task[t].req[3] = Len(host.servers)

\* a legacy host (servers only) whose one server was counted and posted
C8_Witness ==
    /\ ~host.has_guilds
    /\ host.has_servers
    /\ Len(host.servers) = 1
    /\ task[1].op = "post_server_count"
    /\ task[1].req[3] = 1
    /\ Returned(1)

(***************************************************************************)
(* C9 as stated: a network-facing operation makes exactly one HTTP-layer   *)
(* call and never retries; an error of that call is the error the caller   *)
(* gets; on success the caller gets the decoded result unchanged.          *)
(***************************************************************************)
C9_ResultReturnedUnchanged ==
    \A t \in Tasks :
        (task[t].op \in NetworkOps /\ task[t].pc = "done") =>
            /\ task[t].calls = 1
            /\ (task[t].resp[1] = "error") => task[t].result = <<"raise", task[t].resp[2]>>
            /\ (task[t].resp[1] = "ok") => task[t].result = <<"return", task[t].resp[2]>>

(***************************************************************************)
(* C9 amended: a network-facing operation makes exactly one HTTP-layer     *)
(* call and never retries: when the call fails, the caller gets the same   *)
(* error, no second request is issued, and self.bot_id and the closed flag *)
(* are unchanged; when it succeeds, get_server_count, get_upvote_info,     *)
(* get_bot_info, get_bots and get_user_info return the decoded result      *)
(* unchanged, and post_server_count returns nothing.  get_bots passes      *)
(* limit and offset through unchanged.                                     *)
(***************************************************************************)
C9_OneCallNoRetry ==
    /\ [](\A t \in Tasks :
             (task[t].op \in NetworkOps) =>
                 /\ task[t].calls = 1
                 /\ task[t].req[1] = task[t].op
                 /\ (task[t].op = "get_bots") =>
                        task[t].req = <<"get_bots", Get(task[t].args, "limit", 50),
                                        Get(task[t].args, "offset", 0)>>
                 /\ (task[t].pc = "done" /\ task[t].resp[1] = "error") =>
                        task[t].result = <<"raise", task[t].resp[2]>>
                 /\ (task[t].pc = "done" /\ task[t].resp[1] = "ok") =>
                        task[t].result = (IF task[t].op = "post_server_count"
                                          THEN <<"return">>
                                          ELSE <<"return", task[t].resp[2]>>))
    /\ [][\A t \in Tasks :
             (ResumeStep(t) /\ task[t].op \in NetworkOps) =>
                 /\ task'[t].op = task[t].op
                 /\ task'[t].req = task[t].req
                 /\ task'[t].calls = task[t].calls
                 /\ bot_id' = bot_id
                 /\ _is_closed' = _is_closed
                 /\ http_close_calls' = http_close_calls
                 /\ \A u \in Tasks \ {t} : task'[u] = task[u]
       ]_vars

\* get_bots(limit=10, offset=5) failed: the error reached the caller after one request
C9_Witness ==
    /\ task[1].op = "get_bots"
    /\ task[1].req = <<"get_bots", 10, 5>>
    /\ task[1].calls = 1
    /\ Raised(1)
    /\ task[1].result = <<"raise", "HTTPError">>

====
